---- MODULE Spec2Model ----
(***************************************************************************)
(* A model of the tweet scraper service (src/main.py).                     *)
(*                                                                         *)
(* The service scans the 'rawdata' collection for messages that mention    *)
(* twitter.com, and for every such record that has no document yet in the  *)
(* 'twitter' (success) or 'twitter-errors' (failure) collection it calls   *)
(* the Nitter scraper and appends one outcome document.                    *)
(*                                                                         *)
(* Text is modelled as a sequence of one-character strings, so that the    *)
(* two regular expressions of the program are computed character by        *)
(* character.  The wall-clock fields of the outcome documents              *)
(* (created_time, timestamp) are left out: nothing reads them.             *)
(* A store operation (find, find_one, insert_one) either takes effect and  *)
(* returns, or raises and leaves the collection unchanged; it raises       *)
(* exactly when the store is unreachable (storeUp = FALSE).                *)
(***************************************************************************)
EXTENDS Integers, Sequences, FiniteSets, TLC

(***************************************************************************)
(* Bounds of the model.                                                    *)
(***************************************************************************)
\* the external ingester adds at most this many documents to rawdata
MaxRecords == 2
\* at most this many requests to /process-tweets are made
MaxRuns == 3

(***************************************************************************)
(* Text.                                                                   *)
(***************************************************************************)
Digits == {"0", "1", "2", "3", "4", "5", "6", "7", "8", "9"}

\* str.lower() on the characters the messages use
Lower(c) ==
  CASE c = "T" -> "t"
    [] c = "W" -> "w"
    [] c = "C" -> "c"
    [] OTHER -> c

RECURSIVE Str(_)
\* the text of a character sequence, as one string
Str(s) == IF s = <<>> THEN "" ELSE Head(s) \o Str(Tail(s))

\* does the literal lit occur in s at position i
LitAt(s, i, lit) ==
  /\ i >= 1
  /\ i + Len(lit) - 1 <= Len(s)
  /\ \A k \in 1..Len(lit) : s[i + k - 1] = lit[k]

TwitterCom == <<"t", "w", "i", "t", "t", "e", "r", ".", "c", "o", "m">>
Slash == <<"/">>
StatusSeg == <<"/", "s", "t", "a", "t", "u", "s", "/">>

(***************************************************************************)
(* pattern = re.compile(r"twitter\.com/([^/]+)/status/(\d+)")              *)
(***************************************************************************)
NoMatch == [matched |-> FALSE]

\* the end of the longest run of non-slash characters ([^/]) that starts at
\* i (i - 1 when there is none)
RECURSIVE HandleEnd(_, _)
HandleEnd(s, i) ==
  IF i <= Len(s) /\ s[i] /= "/" THEN HandleEnd(s, i + 1) ELSE i - 1

\* a digit run that must reach the end of the text or a space
DigitsEndAnchored(s, i) ==
  LET ends == {j \in i..Len(s) :
                 /\ \A k \in i..j : s[k] \in Digits
                 /\ (j = Len(s) \/ s[j + 1] = " ")}
  IN  IF ends = {} THEN i - 1 ELSE CHOOSE j \in ends : TRUE

\* the end of the longest run of digits (\d) that starts at i
RECURSIVE DigitsEnd(_, _)
DigitsEnd(s, i) ==
  IF i <= Len(s) /\ s[i] \in Digits THEN DigitsEnd(s, i + 1) ELSE i - 1

\* the match of pattern that starts at position i of s, or NoMatch.
\* [^/]+ is greedy and cannot give back a character (the next one must be a
\* slash), and \d+ is greedy and last: the match at i is unique.
MatchAt(s, i) ==
  LET hstart == i + Len(TwitterCom) + 1
      hend   == HandleEnd(s, hstart)
      dstart == hend + 1 + Len(StatusSeg)
      dend   == DigitsEnd(s, dstart)
  IN  IF /\ LitAt(s, i, TwitterCom \o Slash)
         /\ hend >= hstart
         /\ LitAt(s, hend + 1, StatusSeg)
         /\ dend >= dstart
      THEN [matched |-> TRUE,
            user_id |-> SubSeq(s, hstart, hend),
            tweet_id |-> SubSeq(s, dstart, dend)]
      ELSE NoMatch

\* the rightmost match
PatternSearchLast(s) ==
  LET starts == {i \in 1..Len(s) : MatchAt(s, i).matched}
  IN  IF starts = {} THEN NoMatch
      ELSE MatchAt(s, CHOOSE i \in starts : \A j \in starts : i >= j)

\* pattern.search(tweet_url): the leftmost match
PatternSearch(s) ==
  LET starts == {i \in 1..Len(s) : MatchAt(s, i).matched}
  IN  IF starts = {} THEN NoMatch
      ELSE MatchAt(s, CHOOSE i \in starts : \A j \in starts : i <= j)

(***************************************************************************)
(* The query {'message': {'$regex': "twitter.com", '$options': "i"}}:      *)
(* an unanchored, case-insensitive search in which the dot is the regular  *)
(* expression's dot, any character but a newline.                          *)
(***************************************************************************)
FilterCharMatches(p, c) ==
  IF p = "." THEN c /= "\n" ELSE Lower(c) = Lower(p)

RegexFilterMatches(msg) ==
  \E i \in 1..Len(msg) :
    /\ i + Len(TwitterCom) - 1 <= Len(msg)
    /\ \A k \in 1..Len(TwitterCom) : FilterCharMatches(TwitterCom[k], msg[i + k - 1])

(***************************************************************************)
(* The messages the external ingester may put in rawdata.                  *)
(***************************************************************************)
Status12 == <<"/", "a", "l">> \o StatusSeg \o <<"1", "2">>

\* "twitter.com/al/status/12"
MsgAlice == TwitterCom \o Status12
\* "twitter.com/al/status/12 twitter.com/bo/status/7": two post URLs
MsgTwo == MsgAlice \o <<" ">> \o TwitterCom \o <<"/", "b", "o">> \o StatusSeg \o <<"7">>
\* "twitter.com/al/status/12x": digits followed by a letter
MsgBadId == MsgAlice \o <<"x">>
\* "twitter.com/al/status/x": no digit after /status/
MsgNonDigit == TwitterCom \o <<"/", "a", "l">> \o StatusSeg \o <<"x">>
\* "Twitter.com/al/status/12": the domain in another case
MsgUpper == <<"T">> \o Tail(MsgAlice)
\* "twitter-com/al/status/12": another character where the domain has its dot
MsgDash == SubSeq(MsgAlice, 1, 7) \o <<"-">> \o SubSeq(MsgAlice, 9, Len(MsgAlice))
\* "no url": no mention of the domain
MsgNoUrl == <<"n", "o", " ", "u", "r", "l">>

\* "https://twitter.com/alice/status/12345"
MsgHttps ==
  <<"h", "t", "t", "p", "s", ":", "/", "/">> \o TwitterCom
    \o <<"/", "a", "l", "i", "c", "e">> \o StatusSeg \o <<"1", "2", "3", "4", "5">>
\* "no url here"
MsgNoUrlHere == MsgNoUrl \o <<" ", "h", "e", "r", "e">>
\* "twitter.com//status/12": no handle
MsgNoHandle == TwitterCom \o <<"/">> \o StatusSeg \o <<"1", "2">>

Messages == {MsgAlice, MsgTwo, MsgBadId, MsgNonDigit, MsgUpper, MsgDash, MsgNoUrl,
             MsgHttps, MsgNoUrlHere, MsgNoHandle}

\* the messages the ingester of the model adds: one with a post URL (two
\* documents may carry it), one that passes the query's filter and has no
\* match, one that does not pass the filter
IngestMessages == {MsgAlice, MsgUpper, MsgNoUrl}

(***************************************************************************)
(* The Nitter scraper, nitter_scraper.get_tweet_by_id(user_id, tweet_id):  *)
(* it returns a tweet (a dict), returns None, or raises.                   *)
(***************************************************************************)
None == [none |-> TRUE]
ExcMsgs == {"'NoneType' object has no attribute 'find'"}
StoreErr == "store unreachable"

FetchOutcomes(user_id, tweet_id) ==
  {[kind |-> "return", value |-> [user |-> user_id, id |-> tweet_id]],
   [kind |-> "return", value |-> None]}
    \cup [kind : {"AttributeError"}, e : ExcMsgs]
    \cup [kind : {"Exception"}, e : ExcMsgs]

(***************************************************************************)
(* State.                                                                  *)
(***************************************************************************)
\* the requests to /process-tweets that may be in progress at once
Runs == {"r1", "r2"}

VARIABLES
  rawdata,          \* collection appdb.rawdata: the i-th document has _id i
  twitter,          \* collection appdb.twitter, in insertion order
  twitter_errors,   \* collection appdb.twitter-errors, in insertion order
  storeUp,          \* whether the document store answers
  pc,               \* where each request stands
  cursor,           \* responses_cursor: the documents the query returned
  pos,              \* the number of documents of the cursor iterated so far
  processed_count, error_count, skipped_count, results,
  summary,          \* the value the request returned
  tweet,            \* the worker's local tweet
  exc,              \* the text of the exception being handled in the worker
  fetchCalls,       \* history: the calls of get_tweet_by_id
  workerCalls,      \* history: the calls of scrape_and_store_tweet
  raisedCalls,      \* history: the calls of scrape_and_store_tweet that raised
  inv,              \* history: the worker invocation of each request
  runsStarted,      \* history: the number of requests made
  corpusAtStart,    \* history: Len(rawdata) when the request ran its query
  outcomesAtStart,  \* history: the sizes of the two outcome collections then
  lastReturned,     \* history: corpusAtStart of the last request that returned
  prevReturned      \* history: lastReturned when the request ran its query

vars == <<rawdata, twitter, twitter_errors, storeUp, pc, cursor, pos,
          processed_count, error_count, skipped_count, results, summary,
          tweet, exc, fetchCalls, workerCalls, raisedCalls, inv, runsStarted,
          corpusAtStart, outcomesAtStart, lastReturned, prevReturned>>

countVars == <<processed_count, error_count, skipped_count, results>>

NoSummary == [message |-> "none"]
NoInv == [state |-> "none", before |-> 0, source_id |-> 0]
NoCorpus == 0 - 1
NoOutcomes == [twitter |-> 0, twitter_errors |-> 0]

InitRest ==
  /\ twitter = <<>>
  /\ twitter_errors = <<>>
  /\ storeUp = TRUE
  /\ pc = [r \in Runs |-> "idle"]
  /\ cursor = [r \in Runs |-> <<>>]
  /\ pos = [r \in Runs |-> 0]
  /\ processed_count = [r \in Runs |-> 0]
  /\ error_count = [r \in Runs |-> 0]
  /\ skipped_count = [r \in Runs |-> 0]
  /\ results = [r \in Runs |-> <<>>]
  /\ summary = [r \in Runs |-> NoSummary]
  /\ tweet = [r \in Runs |-> None]
  /\ exc = [r \in Runs |-> ""]
  /\ fetchCalls = <<>>
  /\ workerCalls = <<>>
  /\ raisedCalls = <<>>
  /\ inv = [r \in Runs |-> NoInv]
  /\ runsStarted = 0
  /\ corpusAtStart = [r \in Runs |-> NoCorpus]
  /\ outcomesAtStart = [r \in Runs |-> NoOutcomes]
  /\ lastReturned = NoCorpus
  /\ prevReturned = [r \in Runs |-> NoCorpus]

Init == rawdata = <<>> /\ InitRest

(***************************************************************************)
(* Store operations.                                                       *)
(***************************************************************************)
\* find_one with the fault of a filter on str(id), which no document has
find_one_by_str(coll, id) == None

\* collection.find_one({'source_id': id}): the first such document, or None
find_one(coll, id) ==
  LET hits == {i \in 1..Len(coll) : coll[i].source_id = id}
  IN  IF hits = {} THEN None
      ELSE coll[CHOOSE i \in hits : \A j \in hits : i <= j]

\* insert_one with the fault of storing the document twice
insert_one_twice(coll, doc) == Append(Append(coll, doc), doc)

\* insert_one with the fault of replacing the collection's last document
insert_one_replacing(coll, doc) ==
  IF coll = <<>> THEN <<doc>> ELSE [coll EXCEPT ![Len(coll)] = doc]

\* collection.insert_one(doc), when the store answers
insert_one(coll, doc) == Append(coll, doc)

\* db_collection_rawdata.find({'message': {'$regex': ..., '$options': "i"}}):
\* the documents whose message the filter matches, in the store's order
RECURSIVE FindFrom(_, _)
FindFrom(coll, i) ==
  IF i > Len(coll) THEN <<>>
  ELSE (IF RegexFilterMatches(coll[i])
        THEN <<[_id |-> i, message |-> coll[i]]>>
        ELSE <<>>) \o FindFrom(coll, i + 1)

Find(coll) == FindFrom(coll, 1)

\* str(response_id)
str(id) == ToString(id)

(***************************************************************************)
(* The texts and the results of scrape_and_store_tweet.                    *)
(***************************************************************************)
InvalidUrlText(tweet_url) == "Invalid tweet URL format: " \o Str(tweet_url)
\* AttributeErrorText with the fault of the other handler's text
AttributeErrorTextAsUnexpected(e) == "An unexpected error occurred: " \o e

AttributeErrorText(e) == "Nitter scraping failed (AttributeError): " \o e
\* UnexpectedText with the fault of the text of the other handler
UnexpectedTextAsAttribute(e) == "Nitter scraping failed (AttributeError): " \o e
UnexpectedText(e) == "An unexpected error occurred: " \o e

SuccessResult(id) == [status |-> "success", id |-> str(id)]
ErrorResult(id, error_message) ==
  [status |-> "error", id |-> str(id), error_message |-> error_message]
AlreadyInErrorResult(id) ==
  [status |-> "already_in_error", id |-> str(id),
   message |-> "Tweet previously failed to process."]
AlreadyProcessedResult(id) ==
  [status |-> "already_processed", id |-> str(id),
   message |-> "Tweet already successfully processed."]

SuccessDoc(id, t) == [source_id |-> id, tweet |-> t]
ErrorDoc(id, error_message) == [source_id |-> id, error |-> error_message]

(***************************************************************************)
(* The environment: the ingester and the store's availability.             *)
(***************************************************************************)
AddRecord ==
  /\ Len(rawdata) < MaxRecords
  /\ \E m \in IngestMessages : rawdata' = Append(rawdata, m)
  /\ UNCHANGED <<twitter, twitter_errors, storeUp, pc, cursor, pos,
                 processed_count, error_count, skipped_count, results, summary,
                 tweet, exc, fetchCalls, workerCalls, raisedCalls, inv, runsStarted,
                 corpusAtStart, outcomesAtStart, lastReturned, prevReturned>>

StoreFails ==
  /\ storeUp
  /\ storeUp' = FALSE
  /\ UNCHANGED <<rawdata, twitter, twitter_errors, pc, cursor, pos,
                 processed_count, error_count, skipped_count, results, summary,
                 tweet, exc, fetchCalls, workerCalls, raisedCalls, inv, runsStarted,
                 corpusAtStart, outcomesAtStart, lastReturned, prevReturned>>

StoreRecovers ==
  /\ ~storeUp
  /\ storeUp' = TRUE
  /\ UNCHANGED <<rawdata, twitter, twitter_errors, pc, cursor, pos,
                 processed_count, error_count, skipped_count, results, summary,
                 tweet, exc, fetchCalls, workerCalls, raisedCalls, inv, runsStarted,
                 corpusAtStart, outcomesAtStart, lastReturned, prevReturned>>

(***************************************************************************)
(* process_tweets_endpoint.  db_client and nitter_scraper are set by the   *)
(* lifespan before any request is accepted, so the guard of its first      *)
(* lines passes.                                                           *)
(***************************************************************************)
\* is_processed with the fault of looking in 'twitter-errors'
is_processed_in_errors(response_id) == find_one(twitter_errors, response_id)

\* is_processed with the fault of a filter on '_id', which is never response_id
is_processed_by_id(response_id) == None

\* is_processed = db_collection_twitter.find_one({'source_id': response_id})
is_processed(response_id) == find_one(twitter, response_id)

\* is_error with the fault of a filter on '_id', which is never response_id
is_error_by_id(response_id) == None

\* is_error with the fault of looking the document up in 'twitter'
is_error_in_twitter(response_id) == find_one(twitter, response_id)

\* is_error = db_collection_twitter_errors.find_one({'source_id': response_id})
is_error(response_id) == find_one(twitter_errors, response_id)

\* the document the for loop is at
response(r) == cursor[r][pos[r]]

\* an exception leaves process_tweets_endpoint: the request fails
RaiseToCaller(r) ==
  /\ pc' = [pc EXCEPT ![r] = "raised"]

\* the counters are reset and the query is run as the for loop starts
StartRun(r) ==
  /\ pc[r] \in {"idle", "done", "raised"}
  /\ runsStarted < MaxRuns
  /\ runsStarted' = runsStarted + 1
  /\ processed_count' = [processed_count EXCEPT ![r] = 0]
  /\ error_count' = [error_count EXCEPT ![r] = 0]
  /\ skipped_count' = [skipped_count EXCEPT ![r] = 0]
  /\ results' = [results EXCEPT ![r] = <<>>]
  /\ pos' = [pos EXCEPT ![r] = 0]
  /\ IF storeUp
     THEN /\ cursor' = [cursor EXCEPT ![r] = Find(rawdata)]
          /\ pc' = [pc EXCEPT ![r] = "loop"]
          /\ corpusAtStart' = [corpusAtStart EXCEPT ![r] = Len(rawdata)]
          /\ outcomesAtStart' = [outcomesAtStart EXCEPT ![r] =
               [twitter |-> Len(twitter), twitter_errors |-> Len(twitter_errors)]]
          /\ prevReturned' = [prevReturned EXCEPT ![r] = lastReturned]
     ELSE /\ RaiseToCaller(r)
          /\ cursor' = [cursor EXCEPT ![r] = <<>>]
          /\ corpusAtStart' = [corpusAtStart EXCEPT ![r] = NoCorpus]
          /\ outcomesAtStart' = [outcomesAtStart EXCEPT ![r] = NoOutcomes]
          /\ prevReturned' = [prevReturned EXCEPT ![r] = NoCorpus]
  /\ summary' = [summary EXCEPT ![r] = NoSummary]
  /\ inv' = [inv EXCEPT ![r] = NoInv]
  /\ UNCHANGED <<rawdata, twitter, twitter_errors, storeUp, tweet, exc,
                 fetchCalls, workerCalls, raisedCalls, lastReturned>>

\* Skip with the fault of not appending the entry
SkipNoEntry(r, entry) ==
  /\ skipped_count' = [skipped_count EXCEPT ![r] = @ + 1]
  /\ UNCHANGED <<processed_count, error_count, results>>

\* the skip branches of the loop body
Skip(r, entry) ==
  /\ skipped_count' = [skipped_count EXCEPT ![r] = @ + 1]
  /\ results' = [results EXCEPT ![r] = Append(@, entry)]
  /\ UNCHANGED <<processed_count, error_count>>

\* the for loop takes the next document and looks it up in 'twitter'
CheckProcessed(r) ==
  /\ pc[r] = "loop"
  /\ pos[r] < Len(cursor[r])
  /\ pos' = [pos EXCEPT ![r] = @ + 1]
  /\ LET response_id == cursor[r][pos[r] + 1]._id
     IN  IF ~storeUp
         THEN RaiseToCaller(r) /\ UNCHANGED countVars
         ELSE IF is_processed(response_id) = None
              THEN pc' = [pc EXCEPT ![r] = "check_error"] /\ UNCHANGED countVars
              ELSE /\ Skip(r, AlreadyProcessedResult(response_id))
                   /\ UNCHANGED pc
  /\ UNCHANGED <<rawdata, twitter, twitter_errors, storeUp, cursor, summary,
                 tweet, exc, fetchCalls, workerCalls, raisedCalls, inv, runsStarted,
                 corpusAtStart, outcomesAtStart, lastReturned, prevReturned>>

\* the document is not in 'twitter': it is looked up in 'twitter-errors', and
\* scrape_and_store_tweet is called when it is not there either
CheckError(r) ==
  /\ pc[r] = "check_error"
  /\ LET response_id == response(r)._id
     IN  IF ~storeUp
         THEN RaiseToCaller(r) /\ UNCHANGED <<countVars, workerCalls, inv>>
         ELSE IF is_error(response_id) = None
              THEN /\ pc' = [pc EXCEPT ![r] = "worker"]
                   /\ workerCalls' = Append(workerCalls, response_id)
                   /\ inv' = [inv EXCEPT ![r] =
                        [state |-> "running",
                         before |-> Len(twitter) + Len(twitter_errors),
                         source_id |-> response_id]]
                   /\ UNCHANGED countVars
              ELSE /\ Skip(r, AlreadyInErrorResult(response_id))
                   /\ pc' = [pc EXCEPT ![r] = "loop"]
                   /\ UNCHANGED <<workerCalls, inv>>
  /\ UNCHANGED <<rawdata, twitter, twitter_errors, storeUp, cursor, pos, summary,
                 tweet, exc, fetchCalls, raisedCalls, runsStarted,
                 corpusAtStart, outcomesAtStart, lastReturned, prevReturned>>

\* the loop is over: the summary is returned
Return(r) ==
  /\ pc[r] = "loop"
  /\ pos[r] = Len(cursor[r])
  /\ summary' = [summary EXCEPT ![r] =
       [message |-> "Tweet processing completed.",
        processed_count |-> processed_count[r],
        error_count |-> error_count[r],
        skipped_count |-> skipped_count[r],
        total_attempted_or_skipped |->
          processed_count[r] + error_count[r] + skipped_count[r],
        details |-> results[r]]]
  /\ pc' = [pc EXCEPT ![r] = "done"]
  /\ lastReturned' = corpusAtStart[r]
  /\ UNCHANGED <<rawdata, twitter, twitter_errors, storeUp, cursor, pos,
                 processed_count, error_count, skipped_count, results,
                 tweet, exc, fetchCalls, workerCalls, raisedCalls, inv, runsStarted,
                 corpusAtStart, outcomesAtStart, prevReturned>>

(***************************************************************************)
(* scrape_and_store_tweet(response_id, tweet_url), called from the loop    *)
(* body; the loop body's handling of its result is part of the step that   *)
(* returns.                                                                *)
(***************************************************************************)
\* WorkerReturns with the fault of counting the successes only
WorkerReturnsCountsSuccessOnly(r, result) ==
  /\ results' = [results EXCEPT ![r] = Append(@, result)]
  /\ IF result.status = "success"
     THEN processed_count' = [processed_count EXCEPT ![r] = @ + 1]
     ELSE UNCHANGED processed_count
  /\ UNCHANGED <<error_count, skipped_count>>
  /\ tweet' = [tweet EXCEPT ![r] = None]
  /\ exc' = [exc EXCEPT ![r] = ""]
  /\ inv' = [inv EXCEPT ![r].state = "returned"]
  /\ pc' = [pc EXCEPT ![r] = "loop"]

\* the worker returns result: the loop appends it and counts it
WorkerReturns(r, result) ==
  /\ results' = [results EXCEPT ![r] = Append(@, result)]
  /\ IF result.status = "success"
     THEN /\ processed_count' = [processed_count EXCEPT ![r] = @ + 1]
          /\ UNCHANGED error_count
     ELSE /\ error_count' = [error_count EXCEPT ![r] = @ + 1]
          /\ UNCHANGED processed_count
  /\ UNCHANGED skipped_count
  /\ tweet' = [tweet EXCEPT ![r] = None]
  /\ exc' = [exc EXCEPT ![r] = ""]
  /\ inv' = [inv EXCEPT ![r].state = "returned"]
  /\ pc' = [pc EXCEPT ![r] = "loop"]

\* WorkerNoMatch with the fault of raising after the insert instead of
\* returning: the handler of Exception records the error again
WorkerNoMatchRaises(r) ==
  /\ pc[r] = "worker"
  /\ ~PatternSearch(response(r).message).matched
  /\ LET response_id == response(r)._id
         error_message == InvalidUrlText(response(r).message)
     IN  /\ IF storeUp
            THEN twitter_errors' =
                   insert_one(twitter_errors, ErrorDoc(response_id, error_message))
            ELSE UNCHANGED twitter_errors
         /\ pc' = [pc EXCEPT ![r] = "except_exception"]
         /\ exc' = [exc EXCEPT ![r] = error_message]
  /\ UNCHANGED <<rawdata, twitter, storeUp, cursor, pos, summary, countVars, inv,
                 tweet, fetchCalls, workerCalls, raisedCalls, runsStarted,
                 corpusAtStart, outcomesAtStart, lastReturned, prevReturned>>

\* the message has no match: the error is recorded (the insert may raise,
\* which the handler of Exception catches)
WorkerNoMatch(r) ==
  /\ pc[r] = "worker"
  /\ ~PatternSearch(response(r).message).matched
  /\ LET response_id == response(r)._id
         error_message == InvalidUrlText(response(r).message)
     IN  IF storeUp
         THEN /\ twitter_errors' =
                   insert_one(twitter_errors, ErrorDoc(response_id, error_message))
              /\ WorkerReturns(r, ErrorResult(response_id, error_message))
         ELSE /\ pc' = [pc EXCEPT ![r] = "except_exception"]
              /\ exc' = [exc EXCEPT ![r] = StoreErr]
              /\ UNCHANGED <<twitter_errors, countVars, inv, tweet>>
  /\ UNCHANGED <<rawdata, twitter, storeUp, cursor, pos, summary,
                 fetchCalls, workerCalls, raisedCalls, runsStarted,
                 corpusAtStart, outcomesAtStart, lastReturned, prevReturned>>

\* the message has a match: the scraper is called
WorkerFetch(r) ==
  /\ pc[r] = "worker"
  /\ LET match == PatternSearch(response(r).message)
     IN  /\ match.matched
         /\ fetchCalls' = Append(fetchCalls,
              [source_id |-> response(r)._id,
               user_id |-> match.user_id, tweet_id |-> match.tweet_id])
         /\ \E o \in FetchOutcomes(Str(match.user_id), Str(match.tweet_id)) :
              CASE o.kind = "return" ->
                     /\ tweet' = [tweet EXCEPT ![r] = o.value]
                     /\ pc' = [pc EXCEPT ![r] = "insert_tweet"]
                     /\ UNCHANGED exc
                [] o.kind = "AttributeError" ->
                     /\ exc' = [exc EXCEPT ![r] = o.e]
                     /\ pc' = [pc EXCEPT ![r] = "except_attribute_error"]
                     /\ UNCHANGED tweet
                [] o.kind = "Exception" ->
                     /\ exc' = [exc EXCEPT ![r] = o.e]
                     /\ pc' = [pc EXCEPT ![r] = "except_exception"]
                     /\ UNCHANGED tweet
  /\ UNCHANGED <<rawdata, twitter, twitter_errors, storeUp, cursor, pos,
                 processed_count, error_count, skipped_count, results, summary,
                 workerCalls, raisedCalls, inv, runsStarted,
                 corpusAtStart, outcomesAtStart, lastReturned, prevReturned>>

\* WorkerInsertTweet with the fault of a statement that raises after the
\* insert: the handler of Exception then records an error as well
WorkerInsertTweetThenRaises(r) ==
  /\ pc[r] = "insert_tweet"
  /\ IF storeUp
     THEN twitter' = insert_one(twitter, SuccessDoc(response(r)._id, tweet[r]))
     ELSE UNCHANGED twitter
  /\ pc' = [pc EXCEPT ![r] = "except_exception"]
  /\ exc' = [exc EXCEPT ![r] = StoreErr]
  /\ UNCHANGED <<rawdata, twitter_errors, storeUp, cursor, pos, summary,
                 countVars, inv, tweet, fetchCalls, workerCalls, raisedCalls,
                 runsStarted, corpusAtStart, outcomesAtStart, lastReturned, prevReturned>>

\* the scraper returned: what it returned is inserted into 'twitter'
WorkerInsertTweet(r) ==
  /\ pc[r] = "insert_tweet"
  /\ LET response_id == response(r)._id
     IN  IF storeUp
         THEN /\ twitter' = insert_one(twitter, SuccessDoc(response_id, tweet[r]))
              /\ WorkerReturns(r, SuccessResult(response_id))
         ELSE /\ pc' = [pc EXCEPT ![r] = "except_exception"]
              /\ exc' = [exc EXCEPT ![r] = StoreErr]
              /\ UNCHANGED <<twitter, countVars, inv, tweet>>
  /\ UNCHANGED <<rawdata, twitter_errors, storeUp, cursor, pos, summary,
                 fetchCalls, workerCalls, raisedCalls, runsStarted,
                 corpusAtStart, outcomesAtStart, lastReturned, prevReturned>>

\* HandlerRecords with the fault of raising again after recording the error
HandlerRecordsReraises(r, error_message) ==
  /\ IF storeUp
     THEN twitter_errors' =
            insert_one(twitter_errors, ErrorDoc(response(r)._id, error_message))
     ELSE UNCHANGED twitter_errors
  /\ RaiseToCaller(r)
  /\ inv' = [inv EXCEPT ![r].state = "raised"]
  /\ raisedCalls' = Append(raisedCalls, response(r)._id)
  /\ UNCHANGED <<countVars, tweet, exc>>

\* HandlerRecords with the fault of returning the error without recording it
HandlerRecordsNoInsert(r, error_message) ==
  /\ WorkerReturns(r, ErrorResult(response(r)._id, error_message))
  /\ UNCHANGED <<twitter_errors, raisedCalls>>

\* a handler records error_message; when its insert raises, the exception
\* leaves the worker and, the loop having no handler, the endpoint
HandlerRecords(r, error_message) ==
  LET response_id == response(r)._id
  IN  IF storeUp
      THEN /\ twitter_errors' =
                insert_one(twitter_errors, ErrorDoc(response_id, error_message))
           /\ WorkerReturns(r, ErrorResult(response_id, error_message))
           /\ UNCHANGED raisedCalls
      ELSE /\ RaiseToCaller(r)
           /\ inv' = [inv EXCEPT ![r].state = "raised"]
           /\ raisedCalls' = Append(raisedCalls, response_id)
           /\ UNCHANGED <<twitter_errors, countVars, tweet, exc>>

\* an exception is raised inside a handler: it leaves the worker and the
\* endpoint
HandlerRaises(r) ==
  /\ RaiseToCaller(r)
  /\ inv' = [inv EXCEPT ![r].state = "raised"]
  /\ raisedCalls' = Append(raisedCalls, response(r)._id)
  /\ UNCHANGED <<twitter_errors, countVars, tweet, exc>>

\* except AttributeError as e.  Its print reads the locals tweet_id and
\* user_id, which are bound once match.groups() has run, that is when the
\* message has a match; when they are not bound the print raises.
WorkerExceptAttributeError(r) ==
  /\ pc[r] = "except_attribute_error"
  /\ IF PatternSearch(response(r).message).matched
     THEN HandlerRecords(r, AttributeErrorText(exc[r]))
     ELSE HandlerRaises(r)
  /\ UNCHANGED <<rawdata, twitter, storeUp, cursor, pos, summary,
                 fetchCalls, workerCalls, runsStarted,
                 corpusAtStart, outcomesAtStart, lastReturned, prevReturned>>

\* except Exception as e
WorkerExceptException(r) ==
  /\ pc[r] = "except_exception"
  /\ HandlerRecords(r, UnexpectedText(exc[r]))
  /\ UNCHANGED <<rawdata, twitter, storeUp, cursor, pos, summary,
                 fetchCalls, workerCalls, runsStarted,
                 corpusAtStart, outcomesAtStart, lastReturned, prevReturned>>

(***************************************************************************)
(* Specifications.                                                         *)
(***************************************************************************)
Environment == AddRecord \/ StoreFails \/ StoreRecovers

Step(r) ==
  \/ StartRun(r)
  \/ CheckProcessed(r)
  \/ CheckError(r)
  \/ WorkerNoMatch(r)
  \/ WorkerFetch(r)
  \/ WorkerInsertTweet(r)
  \/ WorkerExceptAttributeError(r)
  \/ WorkerExceptException(r)
  \/ Return(r)

\* the requests are made one after the other
Next == Environment \/ Step("r1")

Spec == Init /\ [][Next]_vars

\* requests may overlap (several server processes on the same store), on a
\* corpus that is there from the start and a store that answers
InitConc ==
  /\ rawdata \in {<<MsgAlice>>, <<MsgUpper, MsgAlice>>}
  /\ InitRest

NextConc == \E r \in Runs : Step(r)

SpecConc == InitConc /\ [][NextConc]_vars

\* one request after the other on a corpus of one document, which carries
\* any of the messages, and a store that answers
InitMsg ==
  /\ rawdata \in {<<m>> : m \in Messages}
  /\ InitRest

NextMsg == Step("r1")

SpecMsg == InitMsg /\ [][NextMsg]_vars

(***************************************************************************)
(* Properties.                                                             *)
(***************************************************************************)
HasSuccess(id) == \E i \in 1..Len(twitter) : twitter[i].source_id = id
HasFailure(id) == \E i \in 1..Len(twitter_errors) : twitter_errors[i].source_id = id

SkipStatuses == {"already_processed", "already_in_error"}

\* the number of documents the current worker invocation of r has inserted
Docs(r) == Len(twitter) + Len(twitter_errors) - inv[r].before

\* the number of calls of get_tweet_by_id made for document id
FetchCount(id) == Cardinality({i \in 1..Len(fetchCalls) : fetchCalls[i].source_id = id})
WorkerCount(id) == Cardinality({i \in 1..Len(workerCalls) : workerCalls[i] = id})
RaisedCount(id) == Cardinality({i \in 1..Len(raisedCalls) : raisedCalls[i] = id})

\* request r ran its query after a request returned, on the corpus that
\* request had
SecondRun(r) ==
  /\ pc[r] = "done"
  /\ prevReturned[r] /= NoCorpus
  /\ prevReturned[r] = corpusAtStart[r]

\* C1 (idempotence): a request that returns after an earlier request returned,
\* with no document added to rawdata since that request's query, reports
\* processed_count = 0 and error_count = 0, and all its details are skips.
C1_Idempotence ==
  \A r \in Runs :
    SecondRun(r) =>
      /\ summary[r].processed_count = 0
      /\ summary[r].error_count = 0
      /\ \A i \in 1..Len(summary[r].details) :
           summary[r].details[i].status \in SkipStatuses

C1_Witness ==
  \E r \in Runs :
    /\ SecondRun(r)
    /\ Len(summary[r].details) = 2
    /\ summary[r].details[1].status = "already_processed"
    /\ summary[r].details[2].status = "already_in_error"

\* C2 (exclusivity): when requests do not overlap, no source_id has a
\* document in 'twitter' and a document in 'twitter-errors'.
C2_Exclusivity ==
  \A id \in 1..Len(rawdata) : ~(HasSuccess(id) /\ HasFailure(id))

C2_Witness ==
  /\ twitter /= <<>>
  /\ twitter_errors /= <<>>
  /\ \E r \in Runs : pc[r] = "done" /\ summary[r].skipped_count >= 1

\* C3, as claimed: get_tweet_by_id is called once for each distinct
\* (handle, post id), also when several documents reference the same post.
C3_OncePerPost ==
  \A i, j \in 1..Len(fetchCalls) :
    (/\ fetchCalls[i].user_id = fetchCalls[j].user_id
     /\ fetchCalls[i].tweet_id = fetchCalls[j].tweet_id) => i = j

\* C3, amended: the calls are counted per document of rawdata, not per post.
\* When requests do not overlap, get_tweet_by_id is called for a source_id at
\* most once, plus once for every worker invocation for that source_id that
\* raised (its error could not be recorded); and when a request returns,
\* every document it visited whose message has a match has been fetched.
C3_OncePerSourceRecord ==
  /\ \A id \in 1..Len(rawdata) :
       /\ FetchCount(id) <= WorkerCount(id)
       /\ WorkerCount(id) <= 1 + RaisedCount(id)
  /\ \A r \in Runs :
       pc[r] = "done" =>
         \A i \in 1..Len(cursor[r]) :
           PatternSearch(cursor[r][i].message).matched
             => FetchCount(cursor[r][i]._id) >= 1

C3_Witness ==
  /\ raisedCalls = <<>>
  /\ \E i, j \in 1..Len(fetchCalls) :
       /\ fetchCalls[i].source_id /= fetchCalls[j].source_id
       /\ fetchCalls[i].user_id = fetchCalls[j].user_id
       /\ fetchCalls[i].tweet_id = fetchCalls[j].tweet_id
  /\ \E r \in Runs : pc[r] = "done"

\* C4, as claimed: every worker invocation that has ended, on any path,
\* has inserted exactly one document.
C4_OneOutcomeEveryInvocation ==
  \A r \in Runs : inv[r].state \in {"returned", "raised"} => Docs(r) = 1

\* C4, amended: a worker invocation that returns has inserted exactly one
\* document, and none before it returns; an invocation whose handler's
\* insert raises ends with no document inserted.  Never two.
C4_OneOutcomePerReturn ==
  \A r \in Runs :
    /\ inv[r].state = "returned" => Docs(r) = 1
    /\ inv[r].state \in {"running", "raised"} => Docs(r) = 0

\* the insert into 'twitter' raised and the handler recorded the failure
C4_Witness ==
  \E r \in Runs :
    /\ inv[r].state = "returned"
    /\ twitter_errors /= <<>>
    /\ twitter_errors[Len(twitter_errors)] =
         [source_id |-> inv[r].source_id,
          error |-> "An unexpected error occurred: store unreachable"]
    /\ FetchCount(inv[r].source_id) = 1

\* C5 (coverage): when a request returns, details has one entry for each
\* document the query returned, in the order of the cursor.
C5_Coverage ==
  \A r \in Runs :
    pc[r] = "done" =>
      /\ Len(summary[r].details) = Len(cursor[r])
      /\ \A i \in 1..Len(cursor[r]) :
           summary[r].details[i].id = ToString(cursor[r][i]._id)
      /\ cursor[r] = Find(SubSeq(rawdata, 1, corpusAtStart[r]))

C5_Witness ==
  \E r \in Runs :
    /\ pc[r] = "done"
    /\ Len(rawdata) = 2
    /\ Len(cursor[r]) = 1
    /\ cursor[r][1]._id = 2
    /\ summary[r].details[1].status = "already_in_error"

\* C6 (summary arithmetic): at every point of a request the three counters
\* add up to the number of entries of results, and the summary's
\* total_attempted_or_skipped is the number of entries of its details.
C6_SummaryArithmetic ==
  \A r \in Runs :
    /\ processed_count[r] + error_count[r] + skipped_count[r] = Len(results[r])
    /\ pc[r] = "done" =>
         /\ summary[r].total_attempted_or_skipped = Len(summary[r].details)
         /\ summary[r].processed_count + summary[r].error_count
              + summary[r].skipped_count = summary[r].total_attempted_or_skipped

C6_Witness ==
  \E r \in Runs :
    /\ pc[r] = "done"
    /\ summary[r].processed_count = 1
    /\ summary[r].skipped_count = 1
    /\ summary[r].total_attempted_or_skipped = 2

\* C7 (classification precedence): when the loop looks a document up in
\* 'twitter' and a document is there, the entry appended is the
\* 'already_processed' one, whatever 'twitter-errors' holds and whatever the
\* message is; when it goes on to 'twitter-errors' and a document is there,
\* the entry is the 'already_in_error' one.  In both cases skipped_count grows
\* by one and neither the worker nor the scraper is called.
C7_ClassificationPrecedence ==
  [][\A r \in Runs :
       LET next_id == cursor[r][pos[r] + 1]._id
       IN  /\ (/\ pc[r] = "loop"
               /\ pos[r] < Len(cursor[r])
               /\ pos'[r] = pos[r] + 1
               /\ storeUp
               /\ HasSuccess(next_id))
                => /\ results'[r] = Append(results[r],
                        [status |-> "already_processed", id |-> ToString(next_id),
                         message |-> "Tweet already successfully processed."])
                   /\ skipped_count'[r] = skipped_count[r] + 1
                   /\ pc'[r] = "loop"
                   /\ workerCalls' = workerCalls
                   /\ fetchCalls' = fetchCalls
           /\ (/\ pc[r] = "check_error"
               /\ pc'[r] /= "check_error"
               /\ storeUp
               /\ HasFailure(cursor[r][pos[r]]._id))
                => /\ results'[r] = Append(results[r],
                        [status |-> "already_in_error",
                         id |-> ToString(cursor[r][pos[r]]._id),
                         message |-> "Tweet previously failed to process."])
                   /\ skipped_count'[r] = skipped_count[r] + 1
                   /\ pc'[r] = "loop"
                   /\ workerCalls' = workerCalls
                   /\ fetchCalls' = fetchCalls
    ]_vars

\* a document with both outcomes (left by overlapping requests) was skipped
\* as already processed by a later request
C7_Witness ==
  \E r \in Runs : \E id \in 1..Len(rawdata) :
    /\ HasSuccess(id)
    /\ HasFailure(id)
    /\ runsStarted = 3
    /\ \A q \in Runs \ {r} : pc[q] = "done"
    /\ \E i \in 1..Len(results[r]) :
         /\ results[r][i].status = "already_processed"
         /\ results[r][i].id = ToString(id)

\* the texts an exception of the model may carry
ExcTexts == ExcMsgs \cup {StoreErr, ""}

InHandler(r) == pc[r] \in {"except_attribute_error", "except_exception"}

\* the failure document and the result entry of document id with text error
RecordsError(r, id, error) ==
  /\ twitter_errors' = Append(twitter_errors, [source_id |-> id, error |-> error])
  /\ twitter' = twitter
  /\ results'[r] = Append(results[r],
       [status |-> "error", id |-> ToString(id), error_message |-> error])
  /\ error_count'[r] = error_count[r] + 1

\* C8 (per-record errors never abort the batch): while the store answers, a
\* message with no match, and an exception of the scraper of either class,
\* end in one failure document and one 'error' entry, and the loop goes on to
\* the next document; a call of the scraper never ends the request; and a
\* request is only ever ended by an exception when the store does not answer.
C8_ErrorsNeverAbort ==
  [][\A r \in Runs :
       LET id == cursor[r][pos[r]]._id
           msg == cursor[r][pos[r]].message
       IN  /\ (pc[r] = "worker" /\ pc'[r] /= "worker")
                => /\ pc'[r] /= "raised"
                   /\ (storeUp /\ ~PatternSearch(msg).matched)
                        => /\ pc'[r] = "loop"
                           /\ \E e \in {"Invalid tweet URL format: " \o Str(msg)} :
                                RecordsError(r, id, e)
           /\ (InHandler(r) /\ pc'[r] /= pc[r] /\ storeUp)
                => /\ pc'[r] = "loop"
                   /\ \E e \in {"Nitter scraping failed (AttributeError): " \o exc[r],
                                "An unexpected error occurred: " \o exc[r]} :
                        RecordsError(r, id, e)
           /\ (pc[r] /= "raised" /\ pc'[r] = "raised") => ~storeUp
    ]_vars

\* the first document's fetch raised, and the request went on to the second
\* document and returned its summary
C8_Witness ==
  \E r \in Runs :
    /\ pc[r] = "done"
    /\ Len(summary[r].details) = 2
    /\ summary[r].details[1].status = "error"
    /\ FetchCount(1) = 1
    /\ summary[r].details[2].status = "success"

\* C9 (fetch failure mapping): the handler of AttributeError records the text
\* 'Nitter scraping failed (AttributeError): <e>', the handler of Exception
\* the text 'An unexpected error occurred: <e>'; the first differs from every
\* text the second can record; the result's status is 'error' in both.
C9_FailureMapping ==
  [][\A r \in Runs :
       LET id == cursor[r][pos[r]]._id
       IN  /\ (pc[r] = "except_attribute_error" /\ pc'[r] = "loop")
                => /\ RecordsError(r, id,
                        "Nitter scraping failed (AttributeError): " \o exc[r])
                   /\ \A e \in ExcTexts :
                        twitter_errors'[Len(twitter_errors')].error
                          /= UnexpectedText(e)
           /\ (pc[r] = "except_exception" /\ pc'[r] = "loop")
                => RecordsError(r, id, "An unexpected error occurred: " \o exc[r])
    ]_vars

\* the two kinds of fetch failure, with the same exception text, are on record
C9_Witness ==
  \E i, j \in 1..Len(twitter_errors) : \E e \in ExcMsgs :
    /\ twitter_errors[i].error = "Nitter scraping failed (AttributeError): " \o e
    /\ twitter_errors[j].error = "An unexpected error occurred: " \o e
    /\ FetchCount(twitter_errors[i].source_id) = 1
    /\ FetchCount(twitter_errors[j].source_id) = 1

\* C10 (uniqueness): when requests do not overlap, 'twitter' holds at most one
\* document per source_id, and so does 'twitter-errors'.
C10_Uniqueness ==
  /\ \A i, j \in 1..Len(twitter) :
       twitter[i].source_id = twitter[j].source_id => i = j
  /\ \A i, j \in 1..Len(twitter_errors) :
       twitter_errors[i].source_id = twitter_errors[j].source_id => i = j

\* three requests have run over two documents with an outcome each
C10_Witness ==
  /\ runsStarted = 3
  /\ \A id \in 1..2 : HasSuccess(id) \/ HasFailure(id)
  /\ Len(twitter) + Len(twitter_errors) = 2
  /\ \E r \in Runs : pc[r] = "done" /\ summary[r].skipped_count = 2

(***************************************************************************)
(* Post URLs, read off the text of a message.                              *)
(***************************************************************************)
\* the positions of s where "twitter.com/<handle>/status/" starts, with a
\* handle of k >= 1 characters other than the slash
UrlHeads(s) ==
  {h \in (1..Len(s)) \X (1..Len(s)) :
     /\ LitAt(s, h[1], TwitterCom \o Slash)
     /\ h[1] + Len(TwitterCom) + h[2] <= Len(s)
     /\ \A k \in 1..h[2] : s[h[1] + Len(TwitterCom) + k] /= "/"
     /\ LitAt(s, h[1] + Len(TwitterCom) + 1 + h[2], StatusSeg)}

\* the position after the "/status/" of head h
SegStart(h) == h[1] + Len(TwitterCom) + 1 + h[2] + Len(StatusSeg)

\* the id segment of head h: the characters after "/status/" up to the next
\* space or the end of the message
IdSegment(s, h) ==
  LET stops == {j \in SegStart(h)..Len(s) : s[j] = " "} \cup {Len(s) + 1}
      stop  == CHOOSE j \in stops : \A k \in stops : j <= k
  IN  SubSeq(s, SegStart(h), stop - 1)

AllDigits(seg) == \A k \in 1..Len(seg) : seg[k] \in Digits

\* the digits a segment starts with
LeadingDigits(seg) ==
  LET n == CHOOSE n \in 0..Len(seg) :
             /\ \A k \in 1..n : seg[k] \in Digits
             /\ (n = Len(seg) \/ seg[n + 1] \notin Digits)
  IN  SubSeq(seg, 1, n)

\* the failure documents of source document id
FailuresOf(id) ==
  {twitter_errors[i].error : i \in {j \in 1..Len(twitter_errors) :
                                      twitter_errors[j].source_id = id}}

\* C11 as stated (malformed id yields no match): for a message whose only
\* post URL has an id segment that is not made of digits only, no call of the
\* scraper is made and no success document is written.
C11_MalformedIdNoMatch ==
  \A id \in 1..Len(rawdata) :
    LET msg == rawdata[id]
    IN  \A h \in UrlHeads(msg) :
          (Cardinality(UrlHeads(msg)) = 1 /\ ~AllDigits(IdSegment(msg, h)))
            => FetchCount(id) = 0 /\ ~HasSuccess(id)

\* C11 (malformed id, amended): for a message whose only post URL has an id
\* segment that does not start with a digit, the worker records the 'Invalid
\* tweet URL format' failure and never calls the scraper; when the segment
\* starts with digits, the worker calls the scraper with those leading digits
\* as the id, whatever follows them, and never records that failure.
C11_LeadingDigitsAreTheId ==
  \A id \in 1..Len(rawdata) :
    LET msg == rawdata[id]
    IN  \A h \in UrlHeads(msg) :
          Cardinality(UrlHeads(msg)) = 1 =>
            LET seg == IdSegment(msg, h)
            IN  IF LeadingDigits(seg) = <<>>
                THEN /\ FetchCount(id) = 0
                     /\ ~HasSuccess(id)
                     /\ FailuresOf(id) \subseteq
                          {"Invalid tweet URL format: " \o Str(msg)}
                     /\ (\E r \in Runs : pc[r] = "done") => HasFailure(id)
                ELSE /\ \A i \in 1..Len(fetchCalls) :
                          fetchCalls[i].source_id = id
                            => fetchCalls[i].tweet_id = LeadingDigits(seg)
                     /\ "Invalid tweet URL format: " \o Str(msg)
                          \notin FailuresOf(id)
                     /\ (\E r \in Runs : pc[r] = "done") => FetchCount(id) = 1

\* the message "twitter.com/al/status/12x" was visited, and the scraper was
\* called with the id "12"
C11_Witness ==
  /\ Len(rawdata) = 1
  /\ rawdata[1] = MsgBadId
  /\ \E r \in Runs : pc[r] = "done"
  /\ FetchCount(1) = 1
  /\ fetchCalls[1].tweet_id = <<"1", "2">>

\* the heads of s that one digit at least follows: the places where a
\* substring twitter.com/<handle>/status/<digits> starts
PostUrlHeads(s) ==
  {h \in UrlHeads(s) : LeadingDigits(SubSeq(s, SegStart(h), Len(s))) /= <<>>}

\* the (handle, id) of the post URL of s at head h
PostUrlAt(s, h) ==
  [matched |-> TRUE,
   user_id |-> SubSeq(s, h[1] + Len(TwitterCom) + 1, h[1] + Len(TwitterCom) + h[2]),
   tweet_id |-> LeadingDigits(SubSeq(s, SegStart(h), Len(s)))]

\* what the extractor is to return on s
Extraction(s) ==
  IF PostUrlHeads(s) = {} THEN NoMatch
  ELSE PostUrlAt(s, CHOOSE h \in PostUrlHeads(s) :
                      \A g \in PostUrlHeads(s) : h[1] <= g[1])

\* C12 (extraction result): on a message with a substring
\* twitter.com/<handle>/status/<digits> the extractor returns the handle and
\* the digits of the leftmost one, and the scraper is called with that pair
\* only; on a message with none it returns no match and the scraper is not
\* called; 'https://twitter.com/alice/status/12345' gives ('alice', '12345')
\* and 'no url here' gives no match.
C12_ExtractionResult ==
  /\ \A id \in 1..Len(rawdata) :
       /\ PatternSearch(rawdata[id]) = Extraction(rawdata[id])
       /\ \A i \in 1..Len(fetchCalls) :
            fetchCalls[i].source_id = id
              => /\ Extraction(rawdata[id]).matched
                 /\ fetchCalls[i].user_id = Extraction(rawdata[id]).user_id
                 /\ fetchCalls[i].tweet_id = Extraction(rawdata[id]).tweet_id
  /\ PatternSearch(MsgHttps) =
       [matched |-> TRUE, user_id |-> <<"a", "l", "i", "c", "e">>,
        tweet_id |-> <<"1", "2", "3", "4", "5">>]
  /\ PatternSearch(MsgNoUrlHere) = NoMatch

\* the message with two post URLs was visited, and the scraper was called
\* once, with the handle and the id of the first
C12_Witness ==
  /\ Len(rawdata) = 1
  /\ rawdata[1] = MsgTwo
  /\ fetchCalls = <<[source_id |-> 1, user_id |-> <<"a", "l">>,
                     tweet_id |-> <<"1", "2">>]>>
  /\ \E r \in Runs : pc[r] = "done"

\* C13 (success only with content): every document of 'twitter' carries the
\* post content the scraper returned, never the None of a call that returned
\* without content.
C13_SuccessOnlyWithContent ==
  \A i \in 1..Len(twitter) : twitter[i].tweet /= None

\* the number of outcome documents of source document id
OutcomeCount(id) ==
  Cardinality({i \in 1..Len(twitter) : twitter[i].source_id = id})
    + Cardinality({i \in 1..Len(twitter_errors) : twitter_errors[i].source_id = id})

\* C14 (accepted race): with requests that overlap, a source document has
\* as many outcome documents as worker invocations that have written, which
\* is at most one for each of the overlapping requests; so it may have two,
\* and only when both requests called the worker for it.
C14_AcceptedRace ==
  \A id \in 1..Len(rawdata) :
    /\ OutcomeCount(id) <= WorkerCount(id)
    /\ WorkerCount(id) <= Cardinality(Runs)
    /\ (HasSuccess(id) /\ HasFailure(id)) => WorkerCount(id) = Cardinality(Runs)

\* both requests called the worker for the same document while it had no
\* outcome, and it now has a success document and a failure document
C14_Witness ==
  \E id \in 1..Len(rawdata) :
    /\ HasSuccess(id)
    /\ HasFailure(id)
    /\ OutcomeCount(id) = 2
    /\ \A r \in Runs :
         /\ inv[r].source_id = id
         /\ inv[r].state = "returned"
         /\ inv[r].before = 0

\* s is an initial part of t
IsPrefix(s, t) == Len(s) <= Len(t) /\ SubSeq(t, 1, Len(s)) = s

\* C15 (append-only stores): every step leaves the documents of 'twitter',
\* 'twitter-errors' and rawdata in place and unchanged, so each collection
\* only grows, at its end; and a step of a request (one that moves a
\* request or writes an outcome) leaves rawdata unchanged.
C15_AppendOnly ==
  [][/\ IsPrefix(twitter, twitter')
     /\ IsPrefix(twitter_errors, twitter_errors')
     /\ IsPrefix(rawdata, rawdata')
     /\ (pc' /= pc \/ twitter' /= twitter \/ twitter_errors' /= twitter_errors)
          => rawdata' = rawdata
    ]_vars

\* a second request wrote a second success document after the first one's
\* and skipped the document that had it
C15_Witness ==
  /\ Len(rawdata) = 2
  /\ Len(twitter) = 2
  /\ twitter_errors = <<>>
  /\ runsStarted = 2
  /\ \E r \in Runs :
       /\ pc[r] = "done"
       /\ summary[r].processed_count = 1
       /\ summary[r].skipped_count = 1

\* C16 as stated (worker at most once): the worker is called at most once
\* for a source document, over requests that do not overlap.
C16_WorkerAtMostOnce ==
  \A id \in 1..Len(rawdata) : WorkerCount(id) <= 1

\* C16 (failures are never retried, amended): once a source document has a
\* failure document, no step calls the worker or the scraper for it; and the
\* worker is called for a source document at most once, plus once for every
\* earlier call that raised to the request without an outcome document.
C16_FailuresNotRetried ==
  [][\A id \in 1..Len(rawdata) :
       /\ HasFailure(id)
            => /\ WorkerCount(id)' = WorkerCount(id)
               /\ FetchCount(id)' = FetchCount(id)
       /\ (WorkerCount(id) <= 1 + RaisedCount(id))'
    ]_vars

\* a call of the scraper failed, the failure was recorded, and two later
\* requests skipped the document without another call of the worker
C16_Witness ==
  /\ HasFailure(1)
  /\ WorkerCount(1) = 1
  /\ FetchCount(1) = 1
  /\ runsStarted = 3
  /\ \E r \in Runs :
       /\ pc[r] = "done"
       /\ summary[r].details[1].status = "already_in_error"
       /\ summary[r].processed_count = 0
       /\ summary[r].error_count = 0

\* the text "twitter.com" occurs in msg, letters compared without case
ContainsDomain(msg) ==
  \E i \in 1..Len(msg) :
    /\ i + Len(TwitterCom) - 1 <= Len(msg)
    /\ \A k \in 1..Len(TwitterCom) : Lower(msg[i + k - 1]) = TwitterCom[k]

\* C17 (pre-filter selection): the documents a request iterates over are
\* exactly the documents of rawdata whose message contains the text
\* 'twitter.com', letters compared without case; and one of them whose
\* message has no match of the pattern gets no call of the scraper and only
\* the 'Invalid tweet URL format' failure.
C17_VisitsExactlyDomainMentions ==
  \A r \in Runs :
    pc[r] /= "idle" =>
      /\ \A k \in 1..Len(cursor[r]) : ContainsDomain(cursor[r][k].message)
      /\ \A id \in 1..Len(rawdata) :
           ContainsDomain(rawdata[id])
             => \E k \in 1..Len(cursor[r]) : cursor[r][k]._id = id
      /\ \A k \in 1..Len(cursor[r]) :
           ~PatternSearch(cursor[r][k].message).matched
             => /\ FetchCount(cursor[r][k]._id) = 0
                /\ FailuresOf(cursor[r][k]._id) \subseteq
                     {"Invalid tweet URL format: " \o Str(cursor[r][k].message)}

\* C18 (post-condition of a request): when a request has returned its
\* summary, every document it iterated over has an outcome document, and
\* processed_count and error_count are the numbers of documents the request
\* added to 'twitter' and to 'twitter-errors'.
C18_NothingLeftPending ==
  \A r \in Runs :
    pc[r] = "done" =>
      /\ \A k \in 1..Len(cursor[r]) :
           HasSuccess(cursor[r][k]._id) \/ HasFailure(cursor[r][k]._id)
      /\ summary[r].processed_count = Len(twitter) - outcomesAtStart[r].twitter
      /\ summary[r].error_count =
           Len(twitter_errors) - outcomesAtStart[r].twitter_errors

\* a request returned after it wrote one success document and one failure
\* document, for the two documents it iterated over
C18_Witness ==
  \E r \in Runs :
    /\ pc[r] = "done"
    /\ Len(cursor[r]) = 2
    /\ summary[r].processed_count = 1
    /\ summary[r].error_count = 1
    /\ Len(twitter) - outcomesAtStart[r].twitter = 1
    /\ Len(twitter_errors) - outcomesAtStart[r].twitter_errors = 1

\* the texts of the handler of AttributeError
AttrTexts == {"Nitter scraping failed (AttributeError): " \o e : e \in ExcTexts}

\* a step that writes the text of the handler of AttributeError is a step of
\* that handler, for the document it handles and the exception it caught; the
\* handler is entered only by the step that called the scraper for that
\* document, with the exception the call raised; and in the handler the
\* message has a match, so that tweet_id and user_id are bound
AttrTextOnlyAfterFetchRaised ==
  /\ (/\ twitter_errors' /= twitter_errors
      /\ twitter_errors'[Len(twitter_errors')].error \in AttrTexts)
       => \E r \in Runs :
            /\ pc[r] = "except_attribute_error"
            /\ FetchCount(response(r)._id) >= 1
            /\ twitter_errors' = Append(twitter_errors,
                 [source_id |-> response(r)._id,
                  error |-> "Nitter scraping failed (AttributeError): " \o exc[r]])
  /\ \A r \in Runs :
       (pc[r] /= "except_attribute_error" /\ pc'[r] = "except_attribute_error")
         => /\ pc[r] = "worker"
            /\ Len(fetchCalls') = Len(fetchCalls) + 1
            /\ fetchCalls'[Len(fetchCalls')].source_id = response(r)._id
            /\ exc'[r] \in ExcMsgs
  /\ \A r \in Runs :
       pc[r] = "except_attribute_error"
         => PatternSearch(response(r).message).matched

\* C19 as stated (content-unavailable text): the text is written only after
\* a call of the scraper for the document raised AttributeError, and the
\* handler of AttributeError always completes its write.
C19_HandlerAlwaysWrites ==
  [][/\ AttrTextOnlyAfterFetchRaised
     /\ \A r \in Runs :
          (pc[r] = "except_attribute_error" /\ pc'[r] /= pc[r])
            => /\ pc'[r] = "loop"
               /\ RecordsError(r, response(r)._id,
                    "Nitter scraping failed (AttributeError): " \o exc[r])
    ]_vars

\* C19 (content-unavailable text, amended): the text is written only after
\* a call of the scraper for the document raised AttributeError; the handler
\* of AttributeError never fails on the handle and the id it prints; it
\* completes its write when the store answers, and when the store does not
\* answer its insert raises, nothing is written and the request ends.
C19_ContentUnavailableText ==
  [][/\ AttrTextOnlyAfterFetchRaised
     /\ \A r \in Runs :
          (pc[r] = "except_attribute_error" /\ pc'[r] /= pc[r])
            => IF storeUp
               THEN /\ pc'[r] = "loop"
                    /\ RecordsError(r, response(r)._id,
                         "Nitter scraping failed (AttributeError): " \o exc[r])
               ELSE /\ pc'[r] = "raised"
                    /\ twitter_errors' = twitter_errors
                    /\ twitter' = twitter
    ]_vars

\* the only outcome on record is the failure of a call of the scraper that
\* raised AttributeError, and the request returned
C19_Witness ==
  /\ twitter = <<>>
  /\ Len(twitter_errors) = 1
  /\ twitter_errors[1].error \in AttrTexts
  /\ FetchCount(twitter_errors[1].source_id) = 1
  /\ \E r \in Runs : pc[r] = "done" /\ summary[r].error_count = 1

====
